---- MODULE Spec2Model ----
(***************************************************************************)
(* Model of src/app.py: the webhook relay handle_pr and its three stages   *)
(* get_pr_diff, analyze_code_with_claude and post_review_to_github, with   *)
(* the best-effort post_error_to_github.  One request is followed from the *)
(* decoded webhook event to the HTTP response.                             *)
(*                                                                         *)
(* Texts are sequences of string fragments, concatenation is \o, so that   *)
(* an f-string is the sequence of its literal and interpolated parts.      *)
(* A diff is kept as its length and its number of non-whitespace           *)
(* characters: these are the two things the code reads of it.              *)
(***************************************************************************)
EXTENDS Integers, Sequences, FiniteSets, TLC

VARIABLES GITHUB_TOKEN, ANTHROPIC_API_KEY, pc, event, locals, exc, response,
          invoked, calls, noticeResult

vars == <<GITHUB_TOKEN, ANTHROPIC_API_KEY, pc, event, locals, exc, response,
          invoked, calls, noticeResult>>

---------------------------------------------------------------------------
(* Program constants and the bounds of the model                           *)

MAX_DIFF_SIZE == 50000

MAX_TOKENS == 4000

\* Diff lengths within DiffSlack of MAX_DIFF_SIZE are explored.
DiffSlack == 1

\* An LLM response holds at most MaxBlocks content blocks.
MaxBlocks == 2

---------------------------------------------------------------------------
(* Python values                                                           *)

\* os.getenv of an unset variable
None == "<None>"

\* truth value of an environment string: None and "" are falsy
TruthyStr(s) == s # None /\ s # ""

\* decoded JSON values: null, objects (dicts), strings, numbers, lists
JNull == [t |-> "null"]
JObj(f) == [t |-> "obj", v |-> f]
JStr(s) == [t |-> "str", v |-> s]
JNum(n) == [t |-> "num", v |-> n]
JList(s) == [t |-> "list", v |-> s]

\* the empty dict {}
EmptyDict == JObj(<<>>)

\* Python truth value of a decoded JSON value (`not x`)
Truthy(j) ==
    CASE j.t = "null" -> FALSE
      [] j.t = "obj"  -> DOMAIN j.v # {}
      [] j.t = "str"  -> j.v # ""
      [] j.t = "num"  -> j.v # 0
      [] j.t = "list" -> Len(j.v) > 0

\* dict.get(k): None for a missing key
Get(d, k) == IF k \in DOMAIN d.v THEN d.v[k] ELSE JNull

\* whether d[k] evaluates: d is a dict holding k (KeyError / TypeError otherwise)
HasKey(d, k) == d.t = "obj" /\ k \in DOMAIN d.v

\* str(x) inside an f-string
Str(j) ==
    CASE j.t = "null" -> "None"
      [] j.t = "str"  -> j.v
      [] j.t = "num"  -> ToString(j.v)
      [] OTHER        -> ToString(j.v)

\* a raised exception: its class and str(e)
Exc(cls, msg) == [cls |-> cls, msg |-> msg]

NoExc == Exc("none", <<>>)

\* jsonify({...}), status
Response(status, key, msg) == [status |-> status, key |-> key, msg |-> msg]

NoResponse == Response(0, "none", <<>>)

---------------------------------------------------------------------------
(* Text helpers                                                            *)

Whitespace == {" ", "\n"}

RECURSIVE LStrip(_)
LStrip(s) ==
    IF s # <<>> /\ Head(s) \in Whitespace THEN LStrip(Tail(s)) ELSE s

RECURSIVE RStrip(_)
RStrip(s) ==
    IF s # <<>> /\ s[Len(s)] \in Whitespace
    THEN RStrip(SubSeq(s, 1, Len(s) - 1))
    ELSE s

\* str.strip()
Strip(s) == RStrip(LStrip(s))

\* "\n".join(parts)
RECURSIVE JoinNL(_)
JoinNL(parts) ==
    IF parts = <<>> THEN <<>>
    ELSE IF Len(parts) = 1 THEN parts[1]
    ELSE parts[1] \o <<"\n">> \o JoinNL(Tail(parts))

---------------------------------------------------------------------------
(* handle_pr, lines 25-49: validation of the event and extraction          *)

\* the actions that are reviewed (line 34)
ReviewedActions == {JStr("opened"), JStr("synchronize")}

\* IsIgnoredAction letting an event without an action through
IsIgnoredAction_FalsyPasses(action) == Truthy(action) /\ action \notin ReviewedActions

\* `action not in ['opened', 'synchronize']`
IsIgnoredAction(action) == action \notin ReviewedActions

\* MissingPrOrRepo testing `is None` where the code tests truth
MissingPrOrRepo_IsNone(pr, repo) == pr = JNull \/ repo = JNull

\* `not pr or not repo` (line 41)
MissingPrOrRepo(pr, repo) == ~Truthy(pr) \/ ~Truthy(repo)

\* a step of handle_pr ends by returning a response, raising, or going on
Return(lv, r) == [next |-> "done", locals |-> lv, response |-> r, exc |-> NoExc]
Raise(lv, e) == [next |-> "except", locals |-> lv, response |-> NoResponse, exc |-> e]
Continue(lv, to) == [next |-> to, locals |-> lv, response |-> NoResponse, exc |-> NoExc]

\* str(KeyError(k))
KeyErrorMsg(k) == <<"'", k, "'">>

\* lines 44-47: pr['number'], repo['full_name'], repo['owner']['login'], repo['name']
ExtractFields(lv) ==
    LET pr == lv["pr"]
        repo == lv["repo"]
    IN  IF ~HasKey(pr, "number") THEN Raise(lv, Exc("KeyError", KeyErrorMsg("number")))
        ELSE LET l1 == ("pr_number" :> pr.v["number"]) @@ lv IN
        IF ~HasKey(repo, "full_name")
        THEN Raise(l1, Exc("KeyError", KeyErrorMsg("full_name")))
        ELSE LET l2 == ("repo_full_name" :> repo.v["full_name"]) @@ l1 IN
        IF ~HasKey(repo, "owner") THEN Raise(l2, Exc("KeyError", KeyErrorMsg("owner")))
        ELSE IF ~HasKey(repo.v["owner"], "login")
        THEN Raise(l2, Exc("KeyError", KeyErrorMsg("login")))
        ELSE LET l3 == ("owner" :> repo.v["owner"].v["login"]) @@ l2 IN
        IF ~HasKey(repo, "name") THEN Raise(l3, Exc("KeyError", KeyErrorMsg("name")))
        ELSE Continue(("repo_name" :> repo.v["name"]) @@ l3, "get_pr_diff")

\* lines 25-49 for the decoded body ev
DispatchResult(ev) ==
    LET l0 == ("event" :> ev) IN
    IF ~Truthy(ev)
    THEN Return(l0, Response(400, "error", <<"No JSON payload received">>))
    ELSE IF ev.t # "obj"
    THEN Raise(l0, Exc("AttributeError", <<"'", ev.t, "' object has no attribute 'get'">>))
    ELSE LET action == Get(ev, "action")
             l1 == ("action" :> action) @@ l0
    IN  IF IsIgnoredAction(action)
        THEN Return(l1, Response(200, "message", <<"Ignored action: ", Str(action)>>))
        ELSE LET pr == Get(ev, "pull_request")
                 repo == Get(ev, "repository")
                 l2 == ("pr" :> pr) @@ ("repo" :> repo) @@ l1
        IN  IF MissingPrOrRepo(pr, repo)
            THEN Return(l2, Response(400, "error",
                                     <<"Missing pull_request or repository data">>))
            ELSE ExtractFields(l2)

---------------------------------------------------------------------------
(* get_pr_diff, lines 88-136                                               *)

\* a response text: its length and its number of non-whitespace characters
Text(len, nonws) == [len |-> len, nonws |-> nonws]

\* `not diff.strip()`
IsBlank(diff) == diff.nonws = 0

TooLargeMsg(diff) ==
    <<"Pull request diff is too large (", ToString(diff.len), " characters). ",
      "Maximum supported size is ", ToString(MAX_DIFF_SIZE), " characters. ",
      "Please break this PR into smaller changes.">>

NoChangesMsg == <<"Pull request has no code changes to review">>

\* a function ends by returning a value or raising
Ok(v) == [ok |-> TRUE, value |-> v, exc |-> NoExc]
Fail(e) == [ok |-> FALSE, value |-> <<>>, exc |-> e]

\* ValidateDiff testing `not diff` where the code tests `not diff.strip()`
ValidateDiff_NoStrip(diff) ==
    IF diff.len > MAX_DIFF_SIZE THEN Fail(Exc("ValueError", TooLargeMsg(diff)))
    ELSE IF diff.len = 0 THEN Fail(Exc("ValueError", NoChangesMsg))
    ELSE Ok(diff)

\* lines 106-119: the two local checks on response.text
ValidateDiff(diff) ==
    IF diff.len > MAX_DIFF_SIZE THEN Fail(Exc("ValueError", TooLargeMsg(diff)))
    ELSE IF IsBlank(diff) THEN Fail(Exc("ValueError", NoChangesMsg))
    ELSE Ok(diff)

\* GetPrDiffTry without response.raise_for_status()
GetPrDiffTry_NoRaiseForStatus(out) ==
    CASE out.kind = "response" -> ValidateDiff(out.text)
      [] out.kind = "timeout" -> Fail(Exc("Timeout", <<>>))
      [] OTHER -> Fail(Exc("RequestException", out.msg))

\* lines 103-119: requests.get, raise_for_status, then the checks.
\* out is what the network gave: a response with a status, a timeout, or
\* another RequestException.
GetPrDiffTry(out) ==
    CASE out.kind = "response" /\ out.status < 400 -> ValidateDiff(out.text)
      [] out.kind = "response" /\ out.status >= 400 ->
            Fail([cls |-> "HTTPError", msg |-> <<>>, status |-> out.status,
                  text |-> out.text])
      [] out.kind = "timeout" -> Fail(Exc("Timeout", <<>>))
      [] OTHER -> Fail(Exc("RequestException", out.msg))

\* lines 121-136: the except clauses; any other class propagates unchanged
GetPrDiffExcept(e, lv) ==
    CASE e.cls = "Timeout" ->
            Exc("Exception", <<"GitHub API request timed out. Please try again.">>)
      [] e.cls = "HTTPError" ->
            (CASE e.status = 401 ->
                    Exc("Exception", <<"GitHub authentication failed. Check your GITHUB_TOKEN.">>)
               [] e.status = 403 ->
                    Exc("Exception", <<"GitHub API rate limit exceeded or insufficient permissions.">>)
               [] e.status = 404 ->
                    Exc("Exception", <<"Pull request not found: ", Str(lv["owner"]), "/",
                                       Str(lv["repo_name"]), "#", Str(lv["pr_number"])>>)
               [] OTHER ->
                    Exc("Exception", <<"GitHub API error: ", ToString(e.status), " - ",
                                       ToString(e.text)>>))
      [] e.cls = "RequestException" ->
            Exc("Exception", <<"Network error while fetching PR: ">> \o e.msg)
      [] OTHER -> e

\* get_pr_diff as a whole
GetPrDiffResult(out, lv) ==
    LET r == GetPrDiffTry(out)
    IN  IF r.ok THEN r ELSE Fail(GetPrDiffExcept(r.exc, lv))

\* the Authorization header of the diff request (lines 97-100)
AuthHeader(token) == IF TruthyStr(token) THEN <<"token ", token>> ELSE <<>>

---------------------------------------------------------------------------
(* analyze_code_with_claude, lines 139-209                                 *)

\* a content block with a text attribute, and one without (e.g. tool_use)
TextBlock(t) == [type |-> "text", text |-> t]
OtherBlock == [type |-> "tool_use"]

\* hasattr(block, "text")
HasText(block) == "text" \in DOMAIN block

\* lines 173-178: the texts of the text-bearing blocks, in order
RECURSIVE TextParts(_)
TextParts(content) ==
    IF content = <<>> THEN <<>>
    ELSE (IF HasText(Head(content)) THEN <<Head(content).text>> ELSE <<>>)
         \o TextParts(Tail(content))

\* line 180
ExtractReview(content) == Strip(JoinNL(TextParts(content)))

EmptyReviewMsg == <<"Claude returned an empty review">>

\* str.lower() of a message fragment
Lower(f) ==
    CASE f = "Invalid" -> "invalid"
      [] f = "API" -> "api"
      [] f = "Credit" -> "credit"
      [] OTHER -> f

\* `word in error_message.lower()`, at the granularity of fragments
Mentions(msg, word) == \E i \in 1..Len(msg) : Lower(msg[i]) = word

\* lines 146-185: the body of the try, given what the API call gave
AnalyzeTry(out) ==
    IF out.kind = "response"
    THEN LET review == ExtractReview(out.content)
         IN  IF review = <<>> THEN Fail(Exc("Exception", EmptyReviewMsg))
             ELSE Ok(review)
    ELSE Fail(Exc(out.kind, out.msg))

\* lines 187-209: the except clauses, in order; the last one catches every
\* Exception raised in the try, the one of line 183 included
AnalyzeExcept(e) ==
    CASE e.cls = "RateLimitError" ->
            Exc("Exception",
                <<"Claude API rate limit exceeded. Please wait a moment and try again.">>)
      [] e.cls = "APITimeoutError" ->
            Exc("Exception", <<"Claude API request timed out. Please try again.">>)
      [] e.cls = "APIError" ->
            (IF Mentions(e.msg, "credit") \/ Mentions(e.msg, "balance")
             THEN Exc("Exception",
                      <<"Insufficient Anthropic API credits. Please add credits at console.anthropic.com">>)
             ELSE IF Mentions(e.msg, "invalid") /\ Mentions(e.msg, "api")
             THEN Exc("Exception",
                      <<"Invalid Anthropic API key. Check your ANTHROPIC_API_KEY in .env">>)
             ELSE Exc("Exception", <<"Claude API error: ">> \o e.msg))
      [] OTHER ->
            Exc("Exception", <<"Unexpected error calling Claude API: ">> \o e.msg)

\* whether the completion call is made (line 142)
AnalyzeCalls(key) == TruthyStr(key)

\* analyze_code_with_claude as a whole
AnalyzeResult(key, out) ==
    IF ~AnalyzeCalls(key)
    THEN Fail(Exc("RuntimeError", <<"ANTHROPIC_API_KEY is not set in .env file">>))
    ELSE LET r == AnalyzeTry(out)
         IN  IF r.ok THEN r ELSE Fail(AnalyzeExcept(r.exc))

---------------------------------------------------------------------------
(* post_review_to_github, lines 212-252                                    *)

\* line 226; the emoji of the header is left out of the string
ReviewHeader == <<"## AI Code Review", "\n\n">>

ReviewBody(review_text) == ReviewHeader \o review_text

\* PostReviewCalls testing `is not None` where the code tests truth
PostReviewCalls_IsNotNone(token) == token # None

\* whether the review request is made (line 215)
PostReviewCalls(token) == TruthyStr(token)

\* lines 231-233: requests.post and raise_for_status
PostTry(out) ==
    CASE out.kind = "response" /\ out.status < 400 -> Ok(<<>>)
      [] out.kind = "response" /\ out.status >= 400 ->
            Fail([cls |-> "HTTPError", msg |-> <<>>, status |-> out.status,
                  text |-> out.text])
      [] out.kind = "timeout" -> Fail(Exc("Timeout", <<>>))
      [] OTHER -> Fail(Exc("RequestException", out.msg))

\* PostReviewExcept raising ValueError for the 422 answer
PostReviewExcept_422ValueError(e, lv) ==
    CASE e.cls = "Timeout" -> Exc("Exception", <<"Timeout while posting review to GitHub">>)
      [] e.cls = "HTTPError" ->
            (IF e.status = 422
             THEN Exc("ValueError", <<"Invalid review data. The PR may be closed or locked.">>)
             ELSE Exc("Exception", <<"GitHub API error when posting review: ",
                                     ToString(e.status)>>))
      [] e.cls = "RequestException" ->
            Exc("Exception", <<"Network error posting review: ">> \o e.msg)
      [] OTHER -> e

\* lines 235-252
PostReviewExcept(e, lv) ==
    CASE e.cls = "Timeout" -> Exc("Exception", <<"Timeout while posting review to GitHub">>)
      [] e.cls = "HTTPError" ->
            (CASE e.status = 401 ->
                    Exc("Exception", <<"GitHub authentication failed when posting review">>)
               [] e.status = 403 ->
                    Exc("Exception",
                        <<"Insufficient permissions to post review. Check token scopes.">>)
               [] e.status = 404 ->
                    Exc("Exception", <<"Cannot post review: PR ", Str(lv["owner"]), "/",
                                       Str(lv["repo_name"]), "#", Str(lv["pr_number"]),
                                       " not found">>)
               [] e.status = 422 ->
                    Exc("Exception", <<"Invalid review data. The PR may be closed or locked.">>)
               [] OTHER ->
                    Exc("Exception", <<"GitHub API error when posting review: ",
                                       ToString(e.status)>>))
      [] e.cls = "RequestException" ->
            Exc("Exception", <<"Network error posting review: ">> \o e.msg)
      [] OTHER -> e

\* post_review_to_github as a whole
PostReviewResult(token, out, lv) ==
    IF ~PostReviewCalls(token)
    THEN Fail(Exc("RuntimeError", <<"Cannot post review: GITHUB_TOKEN is not set">>))
    ELSE LET r == PostTry(out)
         IN  IF r.ok THEN r ELSE Fail(PostReviewExcept(r.exc, lv))

---------------------------------------------------------------------------
(* post_error_to_github, lines 255-279                                     *)

\* lines 269-270; the emoji of the header is left out of the string
ErrorBody(error_message) ==
    <<"## AI Code Review Failed", "\n\n">> \o error_message
    \o <<"\n\n", "Please check the webhook logs or contact the maintainer.">>

\* PostErrorToGithub letting a failure of the comment call leave it
PostErrorToGithub_Reraises(token, out) ==
    IF ~TruthyStr(token) THEN "skipped"
    ELSE IF PostTry(out).ok THEN "posted"
    ELSE "raised"

\* how post_error_to_github ends: "skipped" without a token (line 259),
\* "posted" when the comment call succeeds, "swallowed" when it fails and
\* the failure is logged (lines 277-279)
PostErrorToGithub(token, out) ==
    IF ~TruthyStr(token) THEN "skipped"
    ELSE IF PostTry(out).ok THEN "posted"
    ELSE "swallowed"

\* the clause of handle_pr that takes a raised exception (lines 62, 81)
HandlerOf(e) == IF e.cls = "ValueError" THEN "ValueError" ELSE "Exception"

\* HasPrInfo looking for names that handle_pr never binds
HasPrInfo_WrongNames(lv) == "pull_request" \in DOMAIN lv /\ "repository" \in DOMAIN lv

\* line 69: 'pr' in locals() and 'repo' in locals()
HasPrInfo(lv) == "pr" \in DOMAIN lv /\ "repo" \in DOMAIN lv

\* lines 71-73: the arguments repo['owner']['login'], repo['name'], pr['number']
NoticeArgsEvaluate(lv) ==
    /\ HasKey(lv["repo"], "owner")
    /\ HasKey(lv["repo"].v["owner"], "login")
    /\ HasKey(lv["repo"], "name")
    /\ HasKey(lv["pr"], "number")

\* lines 68-77: "none" when post_error_to_github is not called, else how it ended
NoticeOutcome(lv, token, out) ==
    IF HasPrInfo(lv) /\ NoticeArgsEvaluate(lv) THEN PostErrorToGithub(token, out)
    ELSE "none"

---------------------------------------------------------------------------
(* The inputs of a request                                                 *)

\* values of the two environment variables: unset, empty, set
TokenValues == {None, "", "ghp_token"}
KeyValues == {None, "", "sk-ant-key"}

\* a key that the dict does not hold
Absent == [t |-> "absent"]

Field(k, v) == IF v = Absent THEN <<>> ELSE (k :> v)

ActionValues == {Absent, JNull, JStr("opened"), JStr("synchronize"), JStr("closed")}

PullRequestValues ==
    {Absent, JNull, EmptyDict, JObj([number |-> JNum(5)]), JObj([title |-> JStr("t")])}

Owner == JObj([login |-> JStr("o")])

RepositoryValues ==
    {Absent, JNull, EmptyDict,
     JObj([full_name |-> JStr("o/r"), name |-> JStr("r"), owner |-> Owner]),
     JObj([name |-> JStr("r"), owner |-> Owner]),
     JObj([full_name |-> JStr("o/r"), name |-> JStr("r")]),
     JObj([full_name |-> JStr("o/r"), name |-> JStr("r"), owner |-> EmptyDict]),
     JObj([full_name |-> JStr("o/r"), owner |-> Owner])}

\* the decoded bodies: null, {}, a list, and the objects over the four keys
Events ==
    {JNull, EmptyDict, JList(<<JNum(1)>>)}
    \cup {JObj(Field("action", a) @@ Field("pull_request", p)
               @@ Field("repository", r) @@ Field("zen", z)) :
            a \in ActionValues, p \in PullRequestValues,
            r \in RepositoryValues, z \in {Absent, JStr("z")}}

\* the texts the diff endpoint may answer with
DiffTexts ==
    {Text(0, 0), Text(3, 0), Text(30, 25)}
    \cup {Text(n, 0) : n \in (MAX_DIFF_SIZE - DiffSlack)..(MAX_DIFF_SIZE + DiffSlack)}
    \cup {Text(n, n) : n \in (MAX_DIFF_SIZE - DiffSlack)..(MAX_DIFF_SIZE + DiffSlack)}

HttpResponse(status, text) == [kind |-> "response", status |-> status, text |-> text]

NetworkFailures ==
    {[kind |-> "timeout"], [kind |-> "error", msg |-> <<"Connection refused">>]}

FetchOutcomes ==
    {HttpResponse(200, d) : d \in DiffTexts}
    \cup {HttpResponse(st, Text(9, 8)) : st \in {401, 403, 404, 500}}
    \cup NetworkFailures

PostOutcomes ==
    {HttpResponse(st, Text(2, 2)) : st \in {200, 401, 403, 404, 422, 500}}
    \cup NetworkFailures

BlockTexts == {<<>>, <<" ">>, <<"A">>, <<"B">>, <<" ", "A", "\n">>}

Blocks == {TextBlock(t) : t \in BlockTexts} \cup {OtherBlock}

Contents == UNION {[1..n -> Blocks] : n \in 0..MaxBlocks}

LLMOutcomes ==
    {[kind |-> "response", content |-> c] : c \in Contents}
    \cup {[kind |-> "RateLimitError", msg |-> <<"rate_limit_error">>],
          [kind |-> "APITimeoutError", msg |-> <<"Request timed out.">>],
          [kind |-> "APIError", msg |-> <<"Your ", "credit", " is too low">>],
          [kind |-> "APIError", msg |-> <<"Low ", "balance">>],
          [kind |-> "APIError", msg |-> <<"Invalid", " ", "API", " key">>],
          [kind |-> "APIError", msg |-> <<"Invalid", " request">>],
          [kind |-> "APIError", msg |-> <<"Overloaded">>],
          [kind |-> "TypeError", msg |-> <<"unexpected type">>]}

---------------------------------------------------------------------------
(* The request as a state machine                                          *)

Init ==
    /\ GITHUB_TOKEN \in TokenValues
    /\ ANTHROPIC_API_KEY \in KeyValues
    /\ pc = "idle"
    /\ event = Absent
    /\ locals = <<>>
    /\ exc = NoExc
    /\ response = NoResponse
    /\ invoked = <<>>
    /\ calls = <<>>
    /\ noticeResult = "none"

\* handle_pr, lines 25-49
Dispatch ==
    /\ pc = "idle"
    /\ \E ev \in Events :
          LET r == DispatchResult(ev)
          IN  /\ event' = ev
              /\ locals' = r.locals
              /\ pc' = r.next
              /\ response' = r.response
              /\ exc' = r.exc
    /\ UNCHANGED <<GITHUB_TOKEN, ANTHROPIC_API_KEY, invoked, calls, noticeResult>>

\* handle_pr line 52 and get_pr_diff
GetPrDiff ==
    /\ pc = "get_pr_diff"
    /\ \E out \in FetchOutcomes :
          LET r == GetPrDiffResult(out, locals)
          IN  /\ calls' = Append(calls, [api |-> "GET pulls",
                                         auth |-> AuthHeader(GITHUB_TOKEN), out |-> out])
              /\ IF r.ok
                 THEN /\ locals' = ("diff" :> r.value) @@ locals
                      /\ pc' = "analyze"
                      /\ exc' = NoExc
                 ELSE /\ locals' = locals
                      /\ pc' = "except"
                      /\ exc' = r.exc
    /\ invoked' = Append(invoked, "get_pr_diff")
    /\ UNCHANGED <<GITHUB_TOKEN, ANTHROPIC_API_KEY, event, response, noticeResult>>

\* handle_pr line 55 and analyze_code_with_claude
AnalyzeCodeWithClaude ==
    /\ pc = "analyze"
    /\ \E out \in LLMOutcomes :
          LET r == AnalyzeResult(ANTHROPIC_API_KEY, out)
          IN  /\ calls' = IF AnalyzeCalls(ANTHROPIC_API_KEY)
                          THEN Append(calls, [api |-> "messages.create",
                                              diff |-> locals["diff"],
                                              max_tokens |-> MAX_TOKENS, out |-> out])
                          ELSE calls
              /\ IF r.ok
                 THEN /\ locals' = ("review" :> r.value) @@ locals
                      /\ pc' = "post_review"
                      /\ exc' = NoExc
                 ELSE /\ locals' = locals
                      /\ pc' = "except"
                      /\ exc' = r.exc
    /\ invoked' = Append(invoked, "analyze_code_with_claude")
    /\ UNCHANGED <<GITHUB_TOKEN, ANTHROPIC_API_KEY, event, response, noticeResult>>

SuccessResponse == Response(200, "message", <<"Review posted successfully">>)

\* handle_pr lines 58-60 and post_review_to_github
PostReviewToGithub ==
    /\ pc = "post_review"
    /\ \E out \in PostOutcomes :
          LET r == PostReviewResult(GITHUB_TOKEN, out, locals)
          IN  /\ calls' = IF PostReviewCalls(GITHUB_TOKEN)
                          THEN Append(calls, [api |-> "POST reviews",
                                              body |-> ReviewBody(locals["review"]),
                                              event |-> "COMMENT", out |-> out])
                          ELSE calls
              /\ IF r.ok
                 THEN /\ pc' = "done"
                      /\ response' = SuccessResponse
                      /\ exc' = NoExc
                 ELSE /\ pc' = "except"
                      /\ response' = response
                      /\ exc' = r.exc
    /\ invoked' = Append(invoked, "post_review_to_github")
    /\ UNCHANGED <<GITHUB_TOKEN, ANTHROPIC_API_KEY, event, locals, noticeResult>>

\* line 79
ValueErrorResponse(e) == Response(400, "error", e.msg)

\* lines 83-85
ExceptionResponse(e) == Response(500, "error", <<"Error processing PR: ">> \o e.msg)

\* handle_pr lines 62-79, with the call of post_error_to_github
ExceptValueError ==
    /\ pc = "except"
    /\ HandlerOf(exc) = "ValueError"
    /\ \E out \in PostOutcomes :
          LET n == NoticeOutcome(locals, GITHUB_TOKEN, out)
          IN  /\ noticeResult' = n
              /\ invoked' = IF n = "none" THEN invoked
                            ELSE Append(invoked, "post_error_to_github")
              /\ calls' = IF n \in {"none", "skipped"} THEN calls
                          ELSE Append(calls, [api |-> "POST comments",
                                              body |-> ErrorBody(exc.msg), out |-> out])
    /\ response' = ValueErrorResponse(exc)
    /\ pc' = "done"
    /\ UNCHANGED <<GITHUB_TOKEN, ANTHROPIC_API_KEY, event, locals, exc>>

\* handle_pr lines 81-85
ExceptException ==
    /\ pc = "except"
    /\ HandlerOf(exc) = "Exception"
    /\ response' = ExceptionResponse(exc)
    /\ pc' = "done"
    /\ UNCHANGED <<GITHUB_TOKEN, ANTHROPIC_API_KEY, event, locals, exc, invoked, calls,
                   noticeResult>>

Next ==
    \/ Dispatch
    \/ GetPrDiff
    \/ AnalyzeCodeWithClaude
    \/ PostReviewToGithub
    \/ ExceptValueError
    \/ ExceptException

Spec == Init /\ [][Next]_vars

---------------------------------------------------------------------------
(* Vocabulary of the properties                                            *)

Done == pc = "done"

\* the positions of the outbound requests to one endpoint
CallsTo(api) == {i \in 1..Len(calls) : calls[i].api = api}

\* the number of times a function was entered
Invocations(f) == Cardinality({i \in 1..Len(invoked) : invoked[i] = f})

WasInvoked(f) == Invocations(f) > 0

\* an HTTP exchange that raise_for_status lets through
Http2xx(out) == out.kind = "response" /\ out.status \in 200..299

\* a diff the size gate must let through
ValidDiffText(d) == d.len > 0 /\ d.len <= MAX_DIFF_SIZE /\ d.nonws > 0

\* the outbound call at position i did what its stage needs to go on
CallSucceeded(i) ==
    CASE calls[i].api = "GET pulls" ->
            Http2xx(calls[i].out) /\ ValidDiffText(calls[i].out.text)
      [] calls[i].api = "messages.create" ->
            calls[i].out.kind = "response" /\ ExtractReview(calls[i].out.content) # <<>>
      [] OTHER -> Http2xx(calls[i].out)

PipelineApis == <<"GET pulls", "messages.create", "POST reviews">>

\* the event of the end-to-end scenario: exactly action, pull_request.number,
\* repository.name and repository.owner.login
ScenarioEvents ==
    {JObj([action |-> a, pull_request |-> JObj([number |-> JNum(5)]),
           repository |-> JObj([name |-> JStr("r"), owner |-> Owner])]) :
        a \in ReviewedActions}

---------------------------------------------------------------------------
(* C1: end-to-end success.  For an event with exactly the fields of the    *)
(* scenario, with both secrets configured, when every outbound call that   *)
(* was made succeeded (valid diff, non-empty review text, review accepted),*)
(* the request ends with HTTP 200 after exactly one review request whose   *)
(* body is the fixed header followed by the review text.                   *)
C1_EndToEndSuccess ==
    (/\ Done
     /\ event \in ScenarioEvents
     /\ TruthyStr(GITHUB_TOKEN) /\ TruthyStr(ANTHROPIC_API_KEY)
     /\ \A i \in 1..Len(calls) : CallSucceeded(i))
    => /\ response.status = 200
       /\ Cardinality(CallsTo("POST reviews")) = 1
       /\ \A i \in CallsTo("POST reviews") :
             calls[i].body = ReviewHeader \o locals["review"]

\* the same scenario with repository.full_name added to the event
C1_WithFullName ==
    (/\ Done
     /\ event.t = "obj"
     /\ Get(event, "action") \in ReviewedActions
     /\ Get(event, "pull_request") = JObj([number |-> JNum(5)])
     /\ Get(event, "repository") =
           JObj([full_name |-> JStr("o/r"), name |-> JStr("r"), owner |-> Owner])
     /\ TruthyStr(GITHUB_TOKEN) /\ TruthyStr(ANTHROPIC_API_KEY)
     /\ \A i \in 1..Len(calls) : CallSucceeded(i))
    => /\ response = SuccessResponse
       /\ Cardinality(CallsTo("POST reviews")) = 1
       /\ \A i \in CallsTo("POST reviews") :
             calls[i].body = ReviewHeader \o locals["review"]

---------------------------------------------------------------------------
(* C2: diff size gate.  A fetched diff longer than MAX_DIFF_SIZE or blank  *)
(* makes get_pr_diff raise ValueError, the request ends with HTTP 400 and  *)
(* neither analyze_code_with_claude nor post_review_to_github is entered;  *)
(* a diff handed to the completion call has 0 < len <= MAX_DIFF_SIZE and   *)
(* is not blank; a valid diff of up to MAX_DIFF_SIZE characters passes.    *)
C2_DiffSizeGate ==
    /\ \A i \in CallsTo("messages.create") : ValidDiffText(calls[i].diff)
    /\ \A i \in CallsTo("GET pulls") :
          LET out == calls[i].out
          IN  /\ (Http2xx(out) /\ ~ValidDiffText(out.text))
                 => /\ ~WasInvoked("analyze_code_with_claude")
                    /\ ~WasInvoked("post_review_to_github")
                    /\ exc.cls = "ValueError"
                    /\ pc \in {"except", "done"}
                    /\ (Done => response.status = 400)
              /\ (Http2xx(out) /\ ValidDiffText(out.text))
                 => /\ "diff" \in DOMAIN locals
                    /\ locals["diff"] = out.text

\* a diff one character over the ceiling was fetched and answered with 400
C2_Witness ==
    /\ Done
    /\ response.status = 400
    /\ \E i \in CallsTo("GET pulls") :
          Http2xx(calls[i].out) /\ calls[i].out.text.len = MAX_DIFF_SIZE + 1

\* a diff of exactly MAX_DIFF_SIZE characters reached the completion call
C2_ExactCeilingReached ==
    \E i \in CallsTo("messages.create") : calls[i].diff.len = MAX_DIFF_SIZE

---------------------------------------------------------------------------
(* C3: empty review.  When the completion answers with no text-bearing     *)
(* block, or with text that is empty after trimming, the error that leaves *)
(* analyze_code_with_claude is the empty-result error itself ("Claude      *)
(* returned an empty review"), not the unexpected-error wrapper, and       *)
(* post_review_to_github is not entered.                                   *)
C3_EmptyResultError ==
    \A i \in CallsTo("messages.create") :
       (calls[i].out.kind = "response" /\ ExtractReview(calls[i].out.content) = <<>>)
       => /\ ~WasInvoked("post_review_to_github")
          /\ exc.msg = EmptyReviewMsg

\* the part of C3 about the publisher: every published review is non-empty
C3_PublishedReviewNonEmpty ==
    /\ \A i \in CallsTo("POST reviews") :
          calls[i].body # ReviewHeader /\ locals["review"] # <<>>
    /\ \A i \in CallsTo("messages.create") :
          (calls[i].out.kind = "response" /\ ExtractReview(calls[i].out.content) = <<>>)
          => ~WasInvoked("post_review_to_github")

---------------------------------------------------------------------------
(* C4: the best-effort error notice never masks the original error.        *)
(* post_error_to_github never ends by raising, and whenever it was called  *)
(* the response is the 400 built from the original ValueError alone,       *)
(* whether the comment was posted, failed or was skipped.                  *)
C4_NoticeNeverMasks ==
    /\ noticeResult # "raised"
    /\ (Done /\ WasInvoked("post_error_to_github"))
       => /\ noticeResult \in {"skipped", "posted", "swallowed"}
          /\ response = Response(400, "error", exc.msg)
          /\ exc.cls = "ValueError"

\* the comment call failed and the request was answered
C4_Witness ==
    /\ Done
    /\ noticeResult = "swallowed"
    /\ \E i \in CallsTo("POST comments") : ~Http2xx(calls[i].out)

---------------------------------------------------------------------------
(* C5: validation-failure policy.  As claimed: every request that ends     *)
(* with HTTP 400 has called post_error_to_github before the response.      *)
C5_NoticeOnEvery400 ==
    (Done /\ response.status = 400) => WasInvoked("post_error_to_github")

\* C5 as amended: every validation failure is answered 400 with its message;
\* post_error_to_github is called before the 400 exactly for the failures
\* raised by get_pr_diff (diff too large, diff blank), and not for a missing
\* payload or a missing pull_request / repository, which return at once.
C5_Amended ==
    /\ (pc # "idle" /\ ~Truthy(event))
       => (Done /\ response = Response(400, "error", <<"No JSON payload received">>)
           /\ ~WasInvoked("post_error_to_github"))
    /\ (pc # "idle" /\ event.t = "obj" /\ Truthy(event)
        /\ Get(event, "action") \in {JStr("opened"), JStr("synchronize")}
        /\ (Get(event, "pull_request") \in {JNull, EmptyDict}
            \/ Get(event, "repository") \in {JNull, EmptyDict}))
       => (Done /\ ~WasInvoked("post_error_to_github")
           /\ response = Response(400, "error",
                                  <<"Missing pull_request or repository data">>))
    /\ \A i \in CallsTo("GET pulls") :
          LET out == calls[i].out
          IN  (Done /\ Http2xx(out) /\ ~ValidDiffText(out.text))
              => /\ response.status = 400 /\ response.key = "error"
                 /\ response.msg = (IF out.text.len > MAX_DIFF_SIZE
                                    THEN TooLargeMsg(out.text) ELSE NoChangesMsg)
                 /\ Invocations("post_error_to_github") = 1
    /\ (Done /\ response.status = 400)
       => (WasInvoked("post_error_to_github") <=> WasInvoked("get_pr_diff"))

\* a blank diff was answered 400 after the notice was posted
C5_Witness ==
    /\ Done
    /\ response = Response(400, "error", NoChangesMsg)
    /\ noticeResult = "posted"

---------------------------------------------------------------------------
(* C6: ignored actions.  As claimed: every JSON object whose action is not *)
(* "opened" or "synchronize" (an object without action included) is        *)
(* answered 200 "Ignored action" and nothing is called.                    *)
C6_AllObjectsIgnored ==
    (pc # "idle" /\ event.t = "obj"
     /\ Get(event, "action") \notin {JStr("opened"), JStr("synchronize")})
    => /\ Done
       /\ response = Response(200, "message",
                              <<"Ignored action: ", Str(Get(event, "action"))>>)
       /\ calls = <<>> /\ invoked = <<>>

\* C6 as amended: the same for every non-empty JSON object; the empty object
\* {} is answered 400 "No JSON payload received", also with nothing called.
C6_Amended ==
    (pc # "idle" /\ event.t = "obj"
     /\ Get(event, "action") \notin {JStr("opened"), JStr("synchronize")})
    => /\ Done
       /\ calls = <<>> /\ invoked = <<>> /\ noticeResult = "none"
       /\ IF event = EmptyDict
          THEN response = Response(400, "error", <<"No JSON payload received">>)
          ELSE response = Response(200, "message",
                                   <<"Ignored action: ", Str(Get(event, "action"))>>)

\* an object with other keys and no action was ignored
C6_Witness ==
    /\ Done
    /\ event = JObj([zen |-> JStr("z")])
    /\ response = Response(200, "message", <<"Ignored action: ", "None">>)

---------------------------------------------------------------------------
(* C7: missing fields.  An event with action "opened" or "synchronize"     *)
(* whose pull_request or repository is absent, null or empty is answered   *)
(* 400 and no stage after validation is entered.                           *)
C7_MissingFields ==
    (pc # "idle" /\ event.t = "obj"
     /\ Get(event, "action") \in {JStr("opened"), JStr("synchronize")}
     /\ (\/ "pull_request" \notin DOMAIN event.v
         \/ "repository" \notin DOMAIN event.v
         \/ event.v["pull_request"] \in {JNull, EmptyDict}
         \/ event.v["repository"] \in {JNull, EmptyDict}))
    => /\ Done
       /\ response.status = 400
       /\ calls = <<>> /\ invoked = <<>>

\* an opened event with an empty pull_request object was answered 400
C7_Witness ==
    /\ Done
    /\ response.status = 400
    /\ event.t = "obj"
    /\ Get(event, "action") = JStr("opened")
    /\ Get(event, "pull_request") = EmptyDict
    /\ Truthy(Get(event, "repository"))

---------------------------------------------------------------------------
(* C8: unset static token.  As claimed: with GITHUB_TOKEN unset, a request *)
(* that reaches the diff fetch ends with HTTP 500 without any GitHub       *)
(* request having been issued and without the completion call.             *)
C8_FetchFailsWithoutToken ==
    (Done /\ ~TruthyStr(GITHUB_TOKEN) /\ WasInvoked("get_pr_diff"))
    => /\ response.status = 500
       /\ CallsTo("GET pulls") = {}
       /\ ~WasInvoked("analyze_code_with_claude")

\* C8 as amended: with GITHUB_TOKEN unset only the review publish fails with
\* the configuration error, answered 500, without issuing its request; the
\* diff is fetched without an Authorization header, the completion call runs
\* on a fetched diff, and the error notice is skipped without a request.
C8_Amended ==
    ~TruthyStr(GITHUB_TOKEN)
    => /\ CallsTo("POST reviews") = {}
       /\ CallsTo("POST comments") = {}
       /\ noticeResult \in {"none", "skipped"}
       /\ \A i \in CallsTo("GET pulls") : calls[i].auth = <<>>
       /\ WasInvoked("get_pr_diff") => CallsTo("GET pulls") # {}
       /\ WasInvoked("post_review_to_github")
          => /\ exc = Exc("RuntimeError", <<"Cannot post review: GITHUB_TOKEN is not set">>)
             /\ pc \in {"except", "done"}
             /\ Done => response =
                   Response(500, "error",
                            <<"Error processing PR: ",
                              "Cannot post review: GITHUB_TOKEN is not set">>)

\* without a token the diff was fetched, the completion ran and the publish
\* was answered 500
C8_Witness ==
    /\ Done
    /\ ~TruthyStr(GITHUB_TOKEN)
    /\ WasInvoked("post_review_to_github")
    /\ CallsTo("GET pulls") # {} /\ CallsTo("messages.create") # {}
    /\ response.status = 500

---------------------------------------------------------------------------
(* C9: linear pipeline without retry.  The outbound calls of the pipeline  *)
(* are made at most once each, in the order diff fetch, completion, review *)
(* post, each only after the one before it succeeded; after a call that    *)
(* failed no pipeline call follows and the request ends with 400 or 500.   *)
C9_LinearNoRetry ==
    LET pipeline == {i \in 1..Len(calls) : calls[i].api # "POST comments"}
    IN  /\ \A i \in pipeline : i <= Len(PipelineApis) /\ calls[i].api = PipelineApis[i]
        /\ \A i \in pipeline : \A j \in pipeline : i < j => CallSucceeded(i)
        /\ \A i \in pipeline :
              ~CallSucceeded(i)
              => /\ pc \in {"except", "done"}
                 /\ Done => response.status \in {400, 500}
        /\ \A f \in {"get_pr_diff", "analyze_code_with_claude", "post_review_to_github"} :
              Invocations(f) <= 1
        /\ WasInvoked("post_review_to_github") => WasInvoked("analyze_code_with_claude")
        /\ WasInvoked("analyze_code_with_claude") => WasInvoked("get_pr_diff")

\* the completion call failed after a fetched diff and the request ended 500
C9_Witness ==
    /\ Done
    /\ response.status = 500
    /\ Len(calls) = 2
    /\ calls[2].api = "messages.create" /\ calls[2].out.kind = "RateLimitError"

---------------------------------------------------------------------------
(* C10: error-notice exclusivity.  post_error_to_github is called at most  *)
(* once, only in a request answered 400 for a ValueError raised after pr   *)
(* and repo were bound, never in a request answered 200 or 500, and never  *)
(* in a request that entered post_review_to_github.                        *)
C10_NoticeExclusive ==
    /\ Invocations("post_error_to_github") <= 1
    /\ Cardinality(CallsTo("POST comments")) <= 1
    /\ (WasInvoked("post_error_to_github") \/ CallsTo("POST comments") # {})
       => /\ Done
          /\ response.status = 400
          /\ exc.cls = "ValueError"
          /\ {"pr", "repo", "pr_number", "owner", "repo_name"} \subseteq DOMAIN locals
          /\ ~WasInvoked("post_review_to_github")
    /\ (Done /\ response.status \in {200, 500})
       => noticeResult = "none"

\* an upstream failure of the fetch was answered 500 without a notice
C10_Witness500 ==
    /\ Done
    /\ response.status = 500
    /\ noticeResult = "none"
    /\ \E i \in CallsTo("GET pulls") : ~Http2xx(calls[i].out)

\* a notice was called in a request answered 400
C10_Witness ==
    /\ Done
    /\ Invocations("post_error_to_github") = 1
    /\ response.status = 400
    /\ exc.cls = "ValueError"

====
